---- MODULE Spec2Model ----
(***************************************************************************)
(* MAL-completionist: the watch-history loader, the catalog queries of the *)
(* command-line browser (completionist-cli.py), the comparison script      *)
(* (progression.py) and the AniList ingestion loop (fetch_anilist.py).     *)
(*                                                                         *)
(* Text is a sequence of one-character strings, so that strip, lower,      *)
(* int(), ", ".join and SQL LIKE are computed character by character.      *)
(* A nullable value (Python None, SQL NULL) is <<>>; a present value v is  *)
(* <<v>>.                                                                  *)
(***************************************************************************)
EXTENDS Integers, Sequences, FiniteSets, TLC

VARIABLES
    export,         \* the watch-history export file at MAL_EXPORT_PATH
    anime,          \* the anime table of anime.db: a set of rows, mal_id unique
    cli_pc,         \* completionist-cli.py: "idle" (not run), "start", "ready",
                    \* "closed", "crashed"
    watched_ids,    \* AnimeDB.watched_ids
    console,        \* number of "Error loading MAL export" lines printed
    call,           \* the command the CLI process ran, with its arguments
    out,            \* what that command fetched / rendered
    script_pc,      \* progression.py: "idle" (not run), "start", "loaded",
                    \* "aborted", "done"
    script_watched, \* progression.py's module-level watched_ids
    script_out,     \* the lines progression.py printed
    upstream,       \* AniList's data: the pages of media it holds per year
    run,            \* which execution of fetch_anilist.py this is (1, 2)
    y,              \* the driver loop's y / fetch_year's year
    page,           \* fetch_year's page
    count,          \* fetch_year's count
    wait_time,      \* fetch_year's wait_time
    fetch_pc,       \* fetch_anilist.py: "idle" (not run), "request" (at the top
                    \* of the while loop), "saved" (left the loop), "done"
    event,          \* history: what the last step of fetch_year did and slept
    retries,        \* history: failed requests since the last response taken,
                    \* counted up to MaxRetries
    rl_run,         \* history: rate-limit responses since the last success
    pages_done,     \* history: pages whose media this call has processed
    attempted,      \* history: the years fetch_year was called with, this run
    erred,          \* history: some call of fetch_year was left on an API error
    printed,        \* the last "{year} -> {count} saved" line
    snapshot        \* history: the table when the first execution ended

cliVars == <<cli_pc, watched_ids, console, call, out>>
scriptVars == <<script_pc, script_watched, script_out>>
ingestVars == <<upstream, run, y, page, count, wait_time, fetch_pc, event, retries, rl_run, pages_done, attempted, erred, printed, snapshot>>

-----------------------------------------------------------------------------
(* Bounds of the model.                                                    *)

\* <anime> records in an export document
MaxRecords == 2
\* rows in the anime table
MaxRows == 3
\* entries of a filters mapping, options on a command line
MaxFilters == 2
\* pages AniList holds for a year
MaxPages == 2
\* requests in a row that fail or are rate-limited
MaxRetries == 8

-----------------------------------------------------------------------------
(* Text and nullable values.                                               *)

None == <<>>
Some(v) == <<v>>
IsNone(o) == o = <<>>
Val(o) == o[1]

UpperAlpha == <<"A","B","C","D","E","F","G","H","I","J","K","L","M",
                "N","O","P","Q","R","S","T","U","V","W","X","Y","Z">>
LowerAlpha == <<"a","b","c","d","e","f","g","h","i","j","k","l","m",
                "n","o","p","q","r","s","t","u","v","w","x","y","z">>
Digits == <<"0","1","2","3","4","5","6","7","8","9">>
Whitespace == {" ", "\t", "\n", "\r"}

LowerChar(c) ==
    IF \E i \in 1..Len(UpperAlpha) : UpperAlpha[i] = c
    THEN LowerAlpha[CHOOSE i \in 1..Len(UpperAlpha) : UpperAlpha[i] = c]
    ELSE c

\* str.lower()
Lower(s) == [i \in 1..Len(s) |-> LowerChar(s[i])]

RECURSIVE LStrip(_)
LStrip(s) ==
    IF s = <<>> THEN s
    ELSE IF s[1] \in Whitespace THEN LStrip(Tail(s)) ELSE s

RECURSIVE RStrip(_)
RStrip(s) ==
    IF s = <<>> THEN s
    ELSE IF s[Len(s)] \in Whitespace THEN RStrip(SubSeq(s, 1, Len(s) - 1)) ELSE s

\* str.strip()
Strip(s) == RStrip(LStrip(s))

IsDigit(c) == \E i \in 1..Len(Digits) : Digits[i] = c
DigitVal(c) == (CHOOSE i \in 1..Len(Digits) : Digits[i] = c) - 1

RECURSIVE DigitsValue(_, _)
DigitsValue(s, acc) ==
    IF s = <<>> THEN acc
    ELSE IF s[1] = "_" THEN DigitsValue(Tail(s), acc)
    ELSE DigitsValue(Tail(s), acc * 10 + DigitVal(s[1]))

\* int(text): surrounding whitespace is dropped, one sign is allowed, then
\* decimal digits, single underscores between digits allowed.  ok = FALSE is
\* the ValueError.
int(text) ==
    LET t == Strip(text)
        signed == t # <<>> /\ t[1] \in {"+", "-"}
        body == IF signed THEN Tail(t) ELSE t
        wellFormed ==
            /\ body # <<>>
            /\ \A i \in 1..Len(body) : IsDigit(body[i]) \/ body[i] = "_"
            /\ IsDigit(body[1]) /\ IsDigit(body[Len(body)])
            /\ \A i \in 1..(Len(body) - 1) : ~(body[i] = "_" /\ body[i + 1] = "_")
        magnitude == DigitsValue(body, 0)
    IN IF wellFormed
       THEN [ok |-> TRUE, val |-> IF signed /\ t[1] = "-" THEN 0 - magnitude ELSE magnitude]
       ELSE [ok |-> FALSE, val |-> 0]

completed == <<"c","o","m","p","l","e","t","e","d">>

-----------------------------------------------------------------------------
(* The watch-history export.  A child element of an <anime> record is      *)
(* absent (find() returns None), present without text (.text is None) or   *)
(* present with text.                                                      *)

Absent == [present |-> FALSE, text |-> None]
NoText == [present |-> TRUE, text |-> None]
Elem(t) == [present |-> TRUE, text |-> Some(t)]

\* find(tag) is None or find(tag).text is None
Missing(e) == ~e.present \/ IsNone(e.text)

\* The record loop without the test for the status code "2".
RECURSIVE WatchedLoop_TextOnly(_, _)
WatchedLoop_TextOnly(records, watched) ==
    IF records = <<>> THEN [raised |-> FALSE, watched |-> watched]
    ELSE LET rec == Head(records)
             series_id == rec.series_animedb_id
         IN IF Missing(series_id) THEN WatchedLoop_TextOnly(Tail(records), watched)
            ELSE LET mal_id == int(Val(series_id.text))
                     status == IF Missing(rec.my_status) THEN <<>>
                               ELSE Strip(Val(rec.my_status.text))
                 IN IF ~mal_id.ok THEN [raised |-> TRUE, watched |-> watched]
                    ELSE IF Lower(status) = completed
                         THEN WatchedLoop_TextOnly(Tail(records), watched \cup {mal_id.val})
                         ELSE WatchedLoop_TextOnly(Tail(records), watched)

\* The body of the record loop, the same text in both files; raised = TRUE
\* is the ValueError of int() leaving the loop.
RECURSIVE WatchedLoop(_, _)
WatchedLoop(records, watched) ==
    IF records = <<>> THEN [raised |-> FALSE, watched |-> watched]
    ELSE LET rec == Head(records)
             series_id == rec.series_animedb_id
         IN IF Missing(series_id) THEN WatchedLoop(Tail(records), watched)
            ELSE LET mal_id == int(Val(series_id.text))
                     status == IF Missing(rec.my_status) THEN <<>>
                               ELSE Strip(Val(rec.my_status.text))
                 IN IF ~mal_id.ok THEN [raised |-> TRUE, watched |-> watched]
                    ELSE IF Lower(status) = completed \/ status = <<"2">>
                         THEN WatchedLoop(Tail(records), watched \cup {mal_id.val})
                         ELSE WatchedLoop(Tail(records), watched)

\* ET.parse(path) raises when the file is missing or is not well-formed XML.
ParseRaises(file) == file.kind # "ok"

\* progression.py's load_mal_watched: no handler, the exception propagates.
progression_load_mal_watched(file) ==
    IF ParseRaises(file) THEN [raised |-> TRUE, watched |-> {}]
    ELSE WatchedLoop(file.records, {})

\* completionist-cli.py's load_mal_watched: except Exception logs and
\* returns set().
load_mal_watched(file) ==
    LET r == IF ParseRaises(file) THEN [raised |-> TRUE, watched |-> {}]
             ELSE WatchedLoop(file.records, {})
    IN IF r.raised THEN [logged |-> TRUE, watched |-> {}]
       ELSE [logged |-> FALSE, watched |-> r.watched]

-----------------------------------------------------------------------------
(* The anime table (fetch_anilist.py's CREATE TABLE) and SQLite's          *)
(* evaluation of the statements the programs send.  year is written by     *)
(* every insert, so it is kept as a plain integer.                         *)

Row(mal_id, title, year, rating, cant_episodes, duration_per_episode, type, genre, demographic, season, source, studio, favourites, description, cover_url) ==
    [mal_id |-> mal_id, title |-> title, year |-> year, rating |-> rating,
     cant_episodes |-> cant_episodes,
     duration_per_episode |-> duration_per_episode, type |-> type,
     genre |-> genre, demographic |-> demographic, season |-> season,
     source |-> source, studio |-> studio, favourites |-> favourites,
     description |-> description, cover_url |-> cover_url]

\* SQLite's LIKE: % matches any run of characters, _ any one character,
\* letters match without regard to ASCII case.
RECURSIVE Like(_, _)
Like(p, t) ==
    IF p = <<>> THEN t = <<>>
    ELSE IF p[1] = "%" THEN Like(Tail(p), t) \/ (t # <<>> /\ Like(p, Tail(t)))
    ELSE IF t = <<>> THEN FALSE
    ELSE IF p[1] = "_" THEN Like(Tail(p), Tail(t))
    ELSE LowerChar(p[1]) = LowerChar(t[1]) /\ Like(Tail(p), Tail(t))

\* f'%{value}%'
Wrap(value) == <<"%">> \o value \o <<"%">>

\* The value an ORDER BY expression takes on a row (NULL when an operand is).
KeyVal(row, expr) ==
    CASE expr = "rating" -> row.rating
      [] expr = "favourites" -> row.favourites
      [] expr = "cant_episodes" -> row.cant_episodes
      [] expr = "(cant_episodes * duration_per_episode)" ->
            IF IsNone(row.cant_episodes) \/ IsNone(row.duration_per_episode)
            THEN None
            ELSE Some(Val(row.cant_episodes) * Val(row.duration_per_episode))

\* SQLite's ordering of two values of an integer column: NULL sorts lowest.
CmpNullable(a, b) ==
    IF IsNone(a) THEN (IF IsNone(b) THEN 0 ELSE 0 - 1)
    ELSE IF IsNone(b) THEN 1
    ELSE IF Val(a) < Val(b) THEN 0 - 1
    ELSE IF Val(a) > Val(b) THEN 1 ELSE 0

\* ORDER BY term, term, ...: -1 when row a sorts before row b, 1 when after,
\* 0 when the clause leaves their order open.
RECURSIVE Cmp(_, _, _)
Cmp(a, b, order) ==
    IF order = <<>> THEN 0
    ELSE LET c == CmpNullable(KeyVal(a, Head(order).expr), KeyVal(b, Head(order).expr))
             d == IF Head(order).desc THEN 0 - c ELSE c
         IN IF d # 0 THEN d ELSE Cmp(a, b, Tail(order))

\* A sequence lists its rows in an order the clause allows.
IsOrderedBy(rows, order) ==
    \A i, j \in 1..Len(rows) : i < j => Cmp(rows[i], rows[j], order) <= 0

\* Every sequence SQLite may return for the selected rows S under an ORDER
\* BY clause: rows the clause does not separate come in any order.
RECURSIVE SortedSeqs(_, _)
SortedSeqs(S, order) ==
    IF S = {} THEN {<<>>}
    ELSE UNION { { <<m>> \o rest : rest \in SortedSeqs(S \ {m}, order) } :
                 m \in {r \in S : \A o \in S : Cmp(o, r, order) >= 0} }

\* One of the sequences of SortedSeqs(S, order).
RECURSIVE OneSorted(_, _)
OneSorted(S, order) ==
    IF S = {} THEN <<>>
    ELSE LET m == CHOOSE r \in S : \A o \in S : Cmp(o, r, order) >= 0
         IN <<m>> \o OneSorted(S \ {m}, order)

\* The integers of S in ascending order.
RECURSIVE SortedInts(_)
SortedInts(S) ==
    IF S = {} THEN <<>>
    ELSE LET m == CHOOSE x \in S : \A z \in S : x <= z
         IN <<m>> \o SortedInts(S \ {m})

\* The sequences SQLite returns for the selected rows S of a statement with
\* no ORDER BY.  SQL leaves the order undefined; SQLite scans the table,
\* which has no index, by rowid (mal_id), backwards when
\* reverse_unordered_selects is set.
ScanLists(S) ==
    LET ids == SortedInts({r.mal_id : r \in S})
        asc == [i \in 1..Len(ids) |-> CHOOSE r \in S : r.mal_id = ids[i]]
    IN {asc, [i \in 1..Len(asc) |-> asc[Len(asc) + 1 - i]]}

\* The column a WHERE condition reads.
TextCol(row, col) ==
    CASE col = "genre" -> Some(row.genre)
      [] col = "studio" -> Some(row.studio)
      [] col = "title" -> Some(row.title)
      [] col = "type" -> row.type
      [] col = "demographic" -> row.demographic
      [] col = "source" -> row.source

NumCol(row, col) ==
    CASE col = "duration_per_episode" -> row.duration_per_episode
      [] col = "rating" -> row.rating

\* A WHERE condition on a row; a comparison with NULL is not true.
Holds(row, cond) ==
    CASE cond.op = "LIKE" ->
            ~IsNone(TextCol(row, cond.col)) /\ Like(cond.txt, Val(TextCol(row, cond.col)))
      [] cond.op = "=" ->
            ~IsNone(TextCol(row, cond.col)) /\ Val(TextCol(row, cond.col)) = cond.txt
      [] cond.op = ">=" ->
            ~IsNone(NumCol(row, cond.col)) /\ Val(NumCol(row, cond.col)) >= cond.num
      [] cond.op = "<=" ->
            ~IsNone(NumCol(row, cond.col)) /\ Val(NumCol(row, cond.col)) <= cond.num
      [] OTHER -> FALSE

\* The operators SQLite's grammar has; "LIKE =" is not one of them.
SqlOps == {"LIKE", "=", ">=", "<="}

Cond(col, op, txt, num) == [col |-> col, op |-> op, txt |-> txt, num |-> num]
Term(expr, desc) == [expr |-> expr, desc |-> desc]

-----------------------------------------------------------------------------
(* AnimeDB (completionist-cli.py).  A filters mapping is a Python dict:    *)
(* given = FALSE is None, items are its entries in insertion order, each   *)
(* carrying its value in the field of its type (txt, num or flag), the     *)
(* other two fields at their falsy defaults.                               *)

Item(key, txt, num, flag) == [key |-> key, txt |-> txt, num |-> num, flag |-> flag]

\* Python truthiness of an entry's value ('' , 0 and False are falsy).
Truthy(item) == item.txt # <<>> \/ item.num # 0 \/ item.flag

\* One pass of "for key, value in filters.items()".
FilterStep(acc, item) ==
    LET key == item.key
        value == Truthy(item)
        where(c) == [acc EXCEPT !.filter_conditions = Append(@, c)]
        by(t) == [acc EXCEPT !.order_clause = Append(@, t)]
    IN IF key = "genre" /\ value THEN where(Cond("genre", "LIKE", Wrap(item.txt), 0))
       ELSE IF key = "type" /\ value THEN where(Cond("type", "=", item.txt, 0))
       ELSE IF key = "duration_min" /\ value
            THEN where(Cond("duration_per_episode", ">=", <<>>, item.num))
       ELSE IF key = "duration_max" /\ value
            THEN where(Cond("duration_per_episode", "<=", <<>>, item.num))
       ELSE IF key = "rating_min" /\ value THEN where(Cond("rating", ">=", <<>>, item.num))
       ELSE IF key = "demographic" /\ value THEN where(Cond("demographic", "=", item.txt, 0))
       ELSE IF key = "source" /\ value THEN where(Cond("source", "=", item.txt, 0))
       ELSE IF key = "studio" /\ value THEN where(Cond("studio", "LIKE =", Wrap(item.txt), 0))
       ELSE IF key = "most_popular" /\ value THEN by(Term("favourites", TRUE))
       ELSE IF key = "least_popular" /\ value THEN by(Term("favourites", FALSE))
       ELSE IF key = "most_episodes" /\ value THEN by(Term("cant_episodes", TRUE))
       ELSE IF key = "least_episodes" /\ value THEN by(Term("cant_episodes", FALSE))
       ELSE IF key = "longest" /\ value
            THEN by(Term("(cant_episodes * duration_per_episode)", TRUE))
       ELSE IF key = "shortest" /\ value
            THEN by(Term("(cant_episodes * duration_per_episode)", FALSE))
       ELSE acc

RECURSIVE FilterLoop(_, _)
FilterLoop(items, acc) ==
    IF items = <<>> THEN acc ELSE FilterLoop(Tail(items), FilterStep(acc, Head(items)))

\* The statement search_remaining builds: its extra WHERE conditions and its
\* ORDER BY terms (<<>>: the statement has no ORDER BY).
BuildQuery(filters) ==
    IF filters.given /\ filters.items # <<>>
    THEN LET b == FilterLoop(filters.items,
                             [filter_conditions |-> <<>>, order_clause |-> <<>>])
         IN [conds |-> b.filter_conditions,
             order_by |-> IF b.order_clause # <<>> THEN b.order_clause
                          ELSE <<Term("rating", TRUE)>>]
    ELSE [conds |-> <<>>, order_by |-> <<>>]

\* cur.execute raises sqlite3.OperationalError on a statement SQLite cannot
\* parse.
ExecuteRaises(query) == \E i \in 1..Len(query.conds) : query.conds[i].op \notin SqlOps

\* The rows "WHERE year = ? AND mal_id NOT IN (...) AND ..." selects.
Selected(table, watched, year, conds) ==
    {r \in table : /\ r.year = year
                   /\ r.mal_id \notin watched
                   /\ \A i \in 1..Len(conds) : Holds(r, conds[i])}

\* AnimeDB.search_remaining: the statement, whether executing it raises, and
\* every list fetchall() may then return.
search_remaining(table, watched, year, filters) ==
    LET query == BuildQuery(filters)
    IN [query |-> query,
        raised |-> ExecuteRaises(query),
        lists |-> IF ExecuteRaises(query) THEN {}
                  ELSE IF query.order_by = <<>>
                       THEN ScanLists(Selected(table, watched, year, query.conds))
                       ELSE SortedSeqs(Selected(table, watched, year, query.conds),
                                       query.order_by)]

\* AnimeDB.get_anime_by_year: "WHERE year = ? ORDER BY rating DESC"; its
\* caller only counts the list, so one of the allowed lists stands for all.
get_anime_by_year(table, year) ==
    OneSorted({r \in table : r.year = year}, <<Term("rating", TRUE)>>)

\* watched / total * 100, kept exact as a fraction num / den.
Percent(part, total) ==
    IF total > 0 THEN [num |-> part * 100, den |-> total] ELSE [num |-> 0, den |-> 1]

\* f"{percent:.Nf}": the fraction in units of 1/scale, rounded half to even.
Format(percent, scale) ==
    LET q == (percent.num * scale) \div percent.den
        twice == 2 * ((percent.num * scale) % percent.den)
    IN IF twice > percent.den THEN q + 1
       ELSE IF twice < percent.den THEN q
       ELSE IF q % 2 = 0 THEN q ELSE q + 1

\* An entry of progress_data whose remaining count forgets the watched set.
YearProgress_AllRemaining(table, watched_set, year) ==
    LET total == Cardinality({r \in table : r.year = year})
        year_list == get_anime_by_year(table, year)
        InWatched(a) == a.mal_id \in watched_set
        watched == Len(SelectSeq(year_list, InWatched))
    IN [year |-> year, watched |-> watched, total |-> total,
        remaining |-> Len(year_list), percent |-> Percent(watched, total)]

\* One entry of progress_data.
YearProgress(table, watched_set, year) ==
    LET total == Cardinality({r \in table : r.year = year})
        year_list == get_anime_by_year(table, year)
        InWatched(a) == a.mal_id \in watched_set
        NotWatched(a) == a.mal_id \notin watched_set
        watched == Len(SelectSeq(year_list, InWatched))
        remaining == Len(SelectSeq(year_list, NotWatched))
    IN [year |-> year, watched |-> watched, total |-> total,
        remaining |-> remaining, percent |-> Percent(watched, total)]

\* AnimeDB.get_year_progress: "GROUP BY year HAVING total > 0 ORDER BY year".
get_year_progress(table, watched_set) ==
    LET years == SortedInts({r.year : r \in table})
    IN [i \in 1..Len(years) |-> YearProgress(table, watched_set, years[i])]

\* progress(): the table row printed for one entry of progress_data, the
\* percentage in tenths.
ProgressLine(data) ==
    [year |-> data.year, watched |-> data.watched, total |-> data.total,
     percent |-> Format(data.percent, 10)]

\* list[:limit]
Slice(list, limit) ==
    IF limit >= 0 THEN SubSeq(list, 1, IF limit < Len(list) THEN limit ELSE Len(list))
    ELSE SubSeq(list, 1, Len(list) + limit)

\* year(): the filters dict, filled in the fixed order of the "if" chain
\* from the options that were passed with a truthy value.  args are the
\* options of the command line in the order they were typed, each named by
\* the filters key it sets.
YearKeys == <<"genre", "type", "rating_min", "duration_max", "duration_min", "studio",
              "demographic", "source", "most_popular", "least_popular",
              "most_episodes", "least_episodes", "longest", "shortest">>

\* A filters dict filled in the order the options were typed.
YearFilters_AsTyped(keys, args) == SelectSeq(args, Truthy)

RECURSIVE YearFilters(_, _)
YearFilters(keys, args) ==
    IF keys = <<>> THEN <<>>
    ELSE LET hit == {i \in 1..Len(args) : args[i].key = Head(keys) /\ Truthy(args[i])}
         IN (IF hit = {} THEN <<>> ELSE <<args[CHOOSE i \in hit : TRUE]>>)
            \o YearFilters(Tail(keys), args)

\* A search that drops the year condition.
SearchLists_AnyYear(table, query, year, limit) ==
    LET hits == {r \in table : Like(Wrap(query), r.title)}
        all == SortedSeqs(hits, <<Term("rating", TRUE)>>)
    IN IF limit < 0 THEN all
       ELSE {SubSeq(l, 1, IF limit < Len(l) THEN limit ELSE Len(l)) : l \in all}

\* search(): "WHERE title LIKE ? [AND year = ?] ORDER BY rating DESC LIMIT ?";
\* the year condition is added when year is truthy, and a negative LIMIT
\* is no limit to SQLite.
SearchLists(table, query, year, limit) ==
    LET hits == {r \in table : /\ Like(Wrap(query), r.title)
                               /\ (~IsNone(year) /\ Val(year) # 0) => r.year = Val(year)}
        all == SortedSeqs(hits, <<Term("rating", TRUE)>>)
    IN IF limit < 0 THEN all
       ELSE {SubSeq(l, 1, IF limit < Len(l) THEN limit ELSE Len(l)) : l \in all}

-----------------------------------------------------------------------------
(* progression.py.                                                         *)

ScriptFirstYear == 1940
ScriptStopYear == 2025

\* compare_year(year, watched_ids, year_list)
compare_year(year, watched, year_list) ==
    LET total == Len(year_list)
        NotWatched(a) == a.mal_id \notin watched
        remaining == SelectSeq(year_list, NotWatched)
        done == total - Len(remaining)
    IN [year |-> year, completed |-> done, total |-> total,
        percent |-> Percent(done, total), remaining |-> remaining]

\* progression.py's get_anime_by_year: no ORDER BY; compare_year only counts
\* the list, so one of the two scans stands for both.
script_get_anime_by_year(table, year) ==
    LET l == CHOOSE l \in ScanLists({r \in table : r.year = year}) : TRUE
    IN [i \in 1..Len(l) |-> [mal_id |-> l[i].mal_id, title |-> l[i].title]]

\* "for year in range(1940, 2025)": years with no rows print nothing.
ScriptLines(table, watched) ==
    LET years == SortedInts({r.year : r \in table} \cap (ScriptFirstYear..(ScriptStopYear - 1)))
    IN [i \in 1..Len(years) |->
          compare_year(years[i], watched, script_get_anime_by_year(table, years[i]))]

-----------------------------------------------------------------------------
(* The inputs the model draws from.                                        *)

\* str(n) of a non-negative integer, as the exporting application writes it.
RECURSIVE Str(_)
Str(n) == IF n < 10 THEN <<Digits[n + 1]>> ELSE Str(n \div 10) \o <<Digits[(n % 10) + 1]>>

Record(id, status) == [series_animedb_id |-> id, my_status |-> status]

IdElems == {Absent, NoText, Elem(<<"1">>), Elem(<<"0","2">>), Elem(<<" ","1","\n">>), Elem(<<"1","x">>)}
StatusElems == {Absent, NoText, Elem(<<"C","o","m","p","l","e","t","e","d">>), Elem(<<" ","c","o","m","p","l","e","t","e","d","\n">>), Elem(<<"2">>),
                Elem(<<" ","2">>), Elem(<<"W","a","t","c","h","i","n","g">>)}
RecordPool == {Record(i, s) : i \in IdElems, s \in StatusElems}

SeqsUpTo(S, n) == UNION {[1..k -> S] : k \in 0..n}

MissingFile == [kind |-> "missing", records |-> <<>>]
MalformedFile == [kind |-> "malformed", records |-> <<>>]
ExportFile(records) == [kind |-> "ok", records |-> records]

\* Any file: missing, not XML, or a document of up to MaxRecords records.
Exports == {MissingFile, MalformedFile} \cup {ExportFile(rs) : rs \in SeqsUpTo(RecordPool, MaxRecords)}

\* The export of a list whose entries ids are all completed.
CompletedExport(ids) ==
    ExportFile([i \in 1..Len(ids) |-> Record(Elem(Str(ids[i])), Elem(<<"C","o","m","p","l","e","t","e","d">>))])

Naruto == <<"N","a","r","u","t","o">>
Monster == <<"M","o","n","s","t","e","r">>
Bleach == <<"B","l","e","a","c","h">>
Beck == <<"B","e","c","k">>
TV == <<"T","V">>
OVA == <<"O","V","A">>
Action == <<"A","c","t","i","o","n">>
Drama == <<"D","r","a","m","a">>
ActionDrama == <<"A","c","t","i","o","n",","," ","D","r","a","m","a">>
Shounen == <<"S","h","o","u","n","e","n">>
Seinen == <<"S","e","i","n","e","n">>
MANGA == <<"M","A","N","G","A">>
ORIGINAL == <<"O","R","I","G","I","N","A","L">>
Pierrot == <<"P","i","e","r","r","o","t">>
Madhouse == <<"M","a","d","h","o","u","s","e">>

R1 == Row(1, Naruto, 2002, Some(80), Some(2), Some(20), Some(TV), Action, Some(Shounen), None, Some(MANGA), Pierrot, Some(5), None, None)
R2 == Row(2, Monster, 2002, Some(80), Some(1), Some(30), Some(TV), Drama, Some(Seinen), None, Some(MANGA), Madhouse, Some(9), None, None)
R3 == Row(3, Bleach, 2002, None, None, None, None, <<>>, None, None, None, <<>>, None, None, None)
R4 == Row(4, Naruto, 2003, Some(60), Some(1), Some(20), Some(OVA), ActionDrama, None, None, Some(ORIGINAL), Pierrot, Some(5), None, None)
R5 == Row(5, Beck, 2002, Some(90), Some(3), Some(20), Some(TV), Drama, None, None, Some(MANGA), Madhouse, Some(5), None, None)
RowPool == {R1, R2, R3, R4, R5}

\* The catalog of the progress example: ten rows in 2020, of which the
\* export below completes six.
Catalog2020 ==
    {Row(100 + i, Naruto, 2020, Some(50 + i), None, None, None, <<>>, None, None, None, <<>>, None, None, None) : i \in 1..10}
Export2020 == CompletedExport([i \in 1..6 |-> 100 + i])

\* The empty table, and every table of MaxRows of the rows above.
Catalogs == {c \in SUBSET RowPool : Cardinality(c) \in {0, MaxRows}}
CliExports == {MissingFile, CompletedExport(<<2, 3>>)}

Years == {2002, 2003}

ItemPool ==
    {Item("genre", <<"d","r","a","m","a">>, 0, FALSE), Item("type", TV, 0, FALSE),
     Item("duration_min", <<>>, 25, FALSE),
     Item("duration_max", <<>>, 20, FALSE), Item("rating_min", <<>>, 80, FALSE),
     Item("demographic", Shounen, 0, FALSE), Item("source", MANGA, 0, FALSE),
     Item("studio", <<"P","i","e","r">>, 0, FALSE),
     Item("most_popular", <<>>, 0, TRUE), Item("least_popular", <<>>, 0, TRUE),
     Item("most_episodes", <<>>, 0, TRUE), Item("least_episodes", <<>>, 0, TRUE),
     Item("longest", <<>>, 0, TRUE), Item("shortest", <<>>, 0, TRUE),
     Item("shortest", <<>>, 0, FALSE), Item("foo", <<>>, 1, FALSE)}

DistinctKeys(items) == \A i, j \in 1..Len(items) : i # j => items[i].key # items[j].key

\* Dicts of up to MaxFilters entries, and None.
Mappings ==
    {[given |-> FALSE, items |-> <<>>]} \cup
    {[given |-> TRUE, items |-> its] : its \in {x \in SeqsUpTo(ItemPool, MaxFilters) : DistinctKeys(x)}}

\* Command lines of the year command: up to MaxFilters of its options.
CommandLines ==
    {x \in SeqsUpTo({it \in ItemPool : it.key # "foo" /\ Truthy(it)}, MaxFilters) : DistinctKeys(x)}

YearLimits == {2}
SearchQueries == {Naruto, <<"n","a","r","u","t","o">>, <<"a","_","u">>, <<"e">>, <<>>}
SearchYears == {None, Some(0), Some(2002), Some(2003)}
SearchLimits == {0 - 1, 0, 1, 2, 10}

-----------------------------------------------------------------------------
(* The processes.                                                          *)

NoCall == [cmd |-> "none", year |-> None, filters |-> [given |-> FALSE, items |-> <<>>],
           args |-> <<>>, limit |-> 0, query |-> <<>>]
NoOut == [raised |-> FALSE, rows |-> <<>>, shown |-> <<>>, progress |-> <<>>,
          lines |-> <<>>, sql |-> [conds |-> <<>>, order_by |-> <<>>]]

NoEvent == [kind |-> "none", ms |-> 0]

\* fetch_anilist.py is not run.
IngestIdle ==
    /\ upstream = <<>>
    /\ run = 0 /\ y = 0 /\ page = 0 /\ count = 0 /\ wait_time = 0
    /\ fetch_pc = "idle"
    /\ event = NoEvent
    /\ retries = 0 /\ rl_run = 0
    /\ pages_done = <<>>
    /\ attempted = <<>>
    /\ erred = FALSE
    /\ printed = None
    /\ snapshot = {}

\* One run of one of the two programs: python completionist-cli.py ..., or
\* python progression.py.
InitProcesses ==
    /\ \/ cli_pc = "start" /\ script_pc = "idle"
       \/ cli_pc = "idle" /\ script_pc = "start"
    /\ watched_ids = {}
    /\ console = 0
    /\ call = NoCall
    /\ out = NoOut
    /\ script_watched = {}
    /\ script_out = <<>>

\* AnimeDB.__init__
NewAnimeDB ==
    /\ cli_pc = "start"
    /\ LET l == load_mal_watched(export)
       IN /\ watched_ids' = l.watched
          /\ console' = IF l.logged THEN console + 1 ELSE console
    /\ cli_pc' = "ready"
    /\ UNCHANGED <<export, anime, call, out, scriptVars, ingestVars>>

\* progress
Progress ==
    /\ cli_pc = "ready"
    /\ LET progress_data == get_year_progress(anime, watched_ids)
       IN out' = [NoOut EXCEPT !.progress = progress_data,
                               !.lines = [i \in 1..Len(progress_data) |->
                                            ProgressLine(progress_data[i])]]
    /\ call' = [NoCall EXCEPT !.cmd = "progress"]
    /\ cli_pc' = "closed"
    /\ UNCHANGED <<export, anime, watched_ids, console, scriptVars, ingestVars>>

\* db.search_remaining(year, filters) called on an open AnimeDB
SearchRemaining ==
    /\ cli_pc = "ready"
    /\ \E year \in Years, filters \in Mappings :
         LET r == search_remaining(anime, watched_ids, year, filters)
         IN /\ call' = [NoCall EXCEPT !.cmd = "search_remaining", !.year = Some(year),
                                      !.filters = filters]
            /\ \/ /\ r.raised
                  /\ out' = [NoOut EXCEPT !.raised = TRUE, !.sql = r.query]
                  /\ cli_pc' = "crashed"
               \/ /\ ~r.raised
                  /\ \E rows \in r.lists : out' = [NoOut EXCEPT !.rows = rows, !.sql = r.query]
                  /\ cli_pc' = "closed"
    /\ UNCHANGED <<export, anime, watched_ids, console, scriptVars, ingestVars>>

\* year YEAR [options] [--limit N]
Year ==
    /\ cli_pc = "ready"
    /\ \E year \in Years, args \in CommandLines, limit \in YearLimits :
         LET filters == [given |-> TRUE, items |-> YearFilters(YearKeys, args)]
             r == search_remaining(anime, watched_ids, year, filters)
         IN /\ call' = [NoCall EXCEPT !.cmd = "year", !.year = Some(year), !.args = args,
                                      !.filters = filters, !.limit = limit]
            /\ \/ /\ r.raised
                  /\ out' = [NoOut EXCEPT !.raised = TRUE, !.sql = r.query]
                  /\ cli_pc' = "crashed"
               \/ /\ ~r.raised
                  /\ \E remaining \in r.lists :
                       out' = [NoOut EXCEPT !.rows = remaining, !.sql = r.query,
                                            !.shown = Slice(remaining, limit)]
                  /\ cli_pc' = "closed"
    /\ UNCHANGED <<export, anime, watched_ids, console, scriptVars, ingestVars>>

\* search QUERY [--year Y] [--limit N]
Search ==
    /\ cli_pc = "ready"
    /\ \E query \in SearchQueries, year \in SearchYears, limit \in SearchLimits :
         /\ call' = [NoCall EXCEPT !.cmd = "search", !.query = query, !.year = year,
                                   !.limit = limit]
         /\ \E results \in SearchLists(anime, query, year, limit) :
              out' = [NoOut EXCEPT !.rows = results, !.shown = results]
    /\ cli_pc' = "closed"
    /\ UNCHANGED <<export, anime, watched_ids, console, scriptVars, ingestVars>>

\* progression.py line 51: watched_ids = load_mal_watched(MAL_EXPORT_PATH)
ScriptLoad ==
    /\ script_pc = "start"
    /\ LET l == progression_load_mal_watched(export)
       IN IF l.raised
          THEN script_pc' = "aborted" /\ script_watched' = script_watched
          ELSE script_pc' = "loaded" /\ script_watched' = l.watched
    /\ UNCHANGED <<export, anime, cliVars, script_out, ingestVars>>

\* progression.py lines 53-61: the year loop
ScriptYears ==
    /\ script_pc = "loaded"
    /\ script_out' = ScriptLines(anime, script_watched)
    /\ script_pc' = "done"
    /\ UNCHANGED <<export, anime, cliVars, script_watched, ingestVars>>

vars == <<export, anime, cliVars, scriptVars, ingestVars>>

\* Any export file against a catalog of two rows.
InitLoad ==
    /\ export \in Exports
    /\ anime = {R1, R2}
    /\ InitProcesses
    /\ IngestIdle

NextLoad == NewAnimeDB \/ Progress \/ ScriptLoad \/ ScriptYears

SpecLoad == InitLoad /\ [][NextLoad]_vars

\* Any catalog against a well-formed export (or none).
InitCLI ==
    /\ \/ export \in CliExports /\ anime \in Catalogs
       \/ export = Export2020 /\ anime = Catalog2020
    /\ InitProcesses
    /\ IngestIdle

NextCLI == NewAnimeDB \/ Progress \/ SearchRemaining \/ Year \/ Search \/ ScriptLoad \/ ScriptYears

SpecCLI == InitCLI /\ [][NextCLI]_vars

-----------------------------------------------------------------------------
(* fetch_anilist.py.                                                       *)

FirstYear == 1940
StopYear == 2026
BaseWait == 1
MaxWait == 20
RetrySleepMs == 5000
PageSleepMs == 250

Min(a, b) == IF a < b THEN a ELSE b

\* ", ".join(list)
RECURSIVE Join(_)
Join(list) ==
    IF list = <<>> THEN <<>>
    ELSE IF Len(list) = 1 THEN list[1]
    ELSE list[1] \o <<",", " ">> \o Join(Tail(list))

\* a or b or c, on values that may be None or ''
Falsy(o) == IsNone(o) \/ Val(o) = <<>>
Or3(a, b, c) == IF ~Falsy(a) THEN a ELSE IF ~Falsy(b) THEN b ELSE c

Demographics == {<<"s","h","o","u","n","e","n">>, <<"s","h","o","u","j","o">>, <<"s","e","i","n","e","n">>, <<"j","o","s","e","i">>}

\* the "demographic guess" loop over m["tags"]
RECURSIVE DemoOf(_)
DemoOf(tags) ==
    IF tags = <<>> THEN None
    ELSE IF Lower(Head(tags)) \in Demographics THEN Some(Head(tags))
    ELSE DemoOf(Tail(tags))

Hentai == <<"H","e","n","t","a","i">>

\* the tuple "row" built from a media record m of the given year
RowOf(m, year) ==
    [mal_id |-> m.idMal,
     title |-> Or3(m.title.english, m.title.romaji, m.title.native),
     year |-> year, rating |-> m.averageScore, cant_episodes |-> m.episodes,
     duration_per_episode |-> m.duration, type |-> m.format,
     genre |-> Join(m.genres), demographic |-> DemoOf(m.tags), season |-> m.season,
     source |-> m.source, studio |-> Join(m.studios), favourites |-> m.favourites,
     description |-> m.description, cover_url |-> m.coverImage]

\* The rowid SQLite gives a row inserted with a NULL INTEGER PRIMARY KEY: one
\* more than the largest in the table.
NextRowid(table) ==
    IF table = {} THEN 1
    ELSE (CHOOSE r \in table : \A o \in table : o.mal_id <= r.mal_id).mal_id + 1

\* insert(row): INSERT OR IGNORE.  A NULL title violates NOT NULL and a
\* mal_id already in the table violates the primary key: the row is dropped.
\* A NULL mal_id is replaced by a fresh rowid.
insert(table, row) ==
    IF IsNone(row.title) THEN table
    ELSE LET stored == [row EXCEPT !.title = Val(row.title),
                                   !.mal_id = IF IsNone(row.mal_id) THEN NextRowid(table)
                                              ELSE Val(row.mal_id)]
         IN IF \E r \in table : r.mal_id = stored.mal_id THEN table
            ELSE table \cup {stored}

\* "for m in data.get("media", [])"
RECURSIVE MediaLoop(_, _, _, _)
MediaLoop(media, table, saved, year) ==
    IF media = <<>> THEN [table |-> table, count |-> saved]
    ELSE IF \E i \in 1..Len(Head(media).genres) : Head(media).genres[i] = Hentai
         THEN MediaLoop(Tail(media), table, saved, year)
         ELSE MediaLoop(Tail(media), insert(table, RowOf(Head(media), year)),
                        saved + 1, year)

\* The pages AniList holds for a year, and the Page object it answers a
\* request for page p with: past the last page, an empty one.
PagesOf(year) == IF year \in DOMAIN upstream THEN upstream[year] ELSE <<>>
PageData(year, p) ==
    IF p <= Len(PagesOf(year)) THEN PagesOf(year)[p]
    ELSE [media |-> <<>>, hasNextPage |-> Some(FALSE)]

Ev(kind, ms) == [kind |-> kind, ms |-> ms]

\* lines 66-70 and the call from the driver loop
EnterFetchYear(year) ==
    /\ y' = year
    /\ page' = 1
    /\ count' = 0
    /\ wait_time' = BaseWait
    /\ fetch_pc' = "request"
    /\ event' = Ev("call", 0)
    /\ retries' = 0 /\ rl_run' = 0
    /\ pages_done' = <<>>

\* A doubling that is not capped.
Backoff_Uncapped(w) == w * 2

\* the wait after a rate-limit response: doubled, capped at 20
Backoff(w) == Min(w * 2, MaxWait)

\* A retry that gives up after MaxRetries failed requests.
RequestFails_Limited ==
    /\ fetch_pc = "request"
    /\ retries < MaxRetries
    /\ event' = Ev("exception", RetrySleepMs)
    /\ retries' = retries + 1
    /\ UNCHANGED <<export, anime, cliVars, scriptVars, upstream, run, y, page, count,
                   wait_time, fetch_pc, rl_run, pages_done, attempted, erred, printed,
                   snapshot>>

\* requests.post / raise_for_status / r.json() raises: sleep 5, same request.
\* Nothing limits the retries; the history counter stops counting at
\* MaxRetries.
RequestFails ==
    /\ fetch_pc = "request"
    /\ event' = Ev("exception", RetrySleepMs)
    /\ retries' = Min(retries + 1, MaxRetries)
    /\ UNCHANGED <<export, anime, cliVars, scriptVars, upstream, run, y, page, count,
                   wait_time, fetch_pc, rl_run, pages_done, attempted, erred, printed,
                   snapshot>>

\* the response carries errors and errors[0].status is 429
RateLimited ==
    /\ fetch_pc = "request"
    /\ retries < MaxRetries
    /\ event' = Ev("rate_limit", wait_time * 1000)
    /\ wait_time' = Backoff(wait_time)
    /\ retries' = retries + 1
    /\ rl_run' = rl_run + 1
    /\ UNCHANGED <<export, anime, cliVars, scriptVars, upstream, run, y, page, count,
                   fetch_pc, pages_done, attempted, erred, printed, snapshot>>

\* An API error that ends the whole program instead of the one year.
ApiError_StopsDriver ==
    /\ fetch_pc = "request"
    /\ event' = Ev("error", 0)
    /\ fetch_pc' = "done"
    /\ erred' = TRUE
    /\ UNCHANGED <<export, anime, cliVars, scriptVars, upstream, run, y, page, count,
                   wait_time, retries, rl_run, pages_done, attempted, printed, snapshot>>

\* the response carries errors and errors[0].status is not 429
ApiError ==
    /\ fetch_pc = "request"
    /\ event' = Ev("error", 0)
    /\ fetch_pc' = "saved"
    /\ erred' = TRUE
    /\ UNCHANGED <<export, anime, cliVars, scriptVars, upstream, run, y, page, count,
                   wait_time, retries, rl_run, pages_done, attempted, printed, snapshot>>

\* the response has no errors and no data.Page
NoData ==
    /\ fetch_pc = "request"
    /\ wait_time' = BaseWait
    /\ event' = Ev("no_data", 0)
    /\ fetch_pc' = "saved"
    /\ retries' = 0 /\ rl_run' = 0
    /\ UNCHANGED <<export, anime, cliVars, scriptVars, upstream, run, y, page, count,
                   pages_done, attempted, erred, printed, snapshot>>

\* A loop that leaves on the last page before inserting its media.
PageOk_DropsLastPage ==
    /\ fetch_pc = "request"
    /\ LET data == PageData(y, page)
           r == MediaLoop(data.media, anime, count, y)
       IN IF data.hasNextPage = Some(TRUE)
          THEN /\ anime' = r.table /\ count' = r.count
               /\ page' = page + 1 /\ event' = Ev("page", PageSleepMs)
               /\ fetch_pc' = "request"
          ELSE /\ anime' = anime /\ count' = count
               /\ page' = page /\ event' = Ev("last_page", 0) /\ fetch_pc' = "saved"
    /\ wait_time' = BaseWait
    /\ retries' = 0 /\ rl_run' = 0
    /\ pages_done' = Append(pages_done, page)
    /\ UNCHANGED <<export, cliVars, scriptVars, upstream, run, y, attempted, erred,
                   printed, snapshot>>

\* the response carries the Page: its media are inserted, then the loop goes
\* to the next page or ends
PageOk ==
    /\ fetch_pc = "request"
    /\ LET data == PageData(y, page)
           r == MediaLoop(data.media, anime, count, y)
       IN /\ anime' = r.table
          /\ count' = r.count
          /\ IF data.hasNextPage = Some(TRUE)
             THEN page' = page + 1 /\ event' = Ev("page", PageSleepMs)
                  /\ fetch_pc' = "request"
             ELSE page' = page /\ event' = Ev("last_page", 0) /\ fetch_pc' = "saved"
    /\ wait_time' = BaseWait
    /\ retries' = 0 /\ rl_run' = 0
    /\ pages_done' = Append(pages_done, page)
    /\ UNCHANGED <<export, cliVars, scriptVars, upstream, run, y, attempted, erred,
                   printed, snapshot>>

\* line 139, and the driver loop "for y in range(1940, 2026)" taking its
\* next year or ending
Return ==
    /\ fetch_pc = "saved"
    /\ printed' = Some([year |-> y, count |-> count])
    /\ IF y + 1 < StopYear
       THEN EnterFetchYear(y + 1) /\ attempted' = Append(attempted, y + 1)
       ELSE /\ fetch_pc' = "done"
            /\ UNCHANGED <<event, y, page, count, wait_time, retries, rl_run,
                           pages_done, attempted>>
    /\ UNCHANGED <<export, anime, cliVars, scriptVars, upstream, run, erred, snapshot>>

\* python fetch_anilist.py, a second time against the same AniList data
Rerun ==
    /\ fetch_pc = "done"
    /\ run = 1
    /\ run' = 2
    /\ snapshot' = anime
    /\ EnterFetchYear(FirstYear)
    /\ attempted' = <<FirstYear>>
    /\ UNCHANGED <<export, anime, cliVars, scriptVars, upstream, erred, printed>>

NoTitle == [english |-> None, romaji |-> None, native |-> None]
Media(idMal, title, genres, tags, studios, averageScore) ==
    [idMal |-> idMal, title |-> title, genres |-> genres, tags |-> tags,
     studios |-> studios, averageScore |-> averageScore, episodes |-> None,
     duration |-> None, format |-> None, season |-> None, source |-> None,
     favourites |-> None, description |-> None, coverImage |-> None]

M1 == Media(Some(1), [NoTitle EXCEPT !.romaji = Some(Naruto)], <<Action>>, <<<<"N","i","n","j","a">>, Shounen>>, <<Pierrot>>, Some(80))
M2 == Media(Some(2), [NoTitle EXCEPT !.english = Some(Monster), !.native = Some(Beck)], <<Drama, Action>>, <<>>, <<Madhouse, Pierrot>>, Some(80))
\* no MyAnimeList identifier
MNoId == Media(None, [NoTitle EXCEPT !.english = Some(<<>>), !.native = Some(Beck)], <<>>, <<<<"S","E","I","N","E","N">>>>, <<>>, None)
MHentai == Media(Some(3), [NoTitle EXCEPT !.romaji = Some(Bleach)], <<Drama, Hentai>>, <<>>, <<>>, None)
\* no title in any language
MNoTitle == Media(Some(4), NoTitle, <<>>, <<>>, <<>>, Some(60))
\* the identifier of M1 under another title
M1Again == Media(Some(1), [NoTitle EXCEPT !.english = Some(Bleach)], <<Drama>>, <<>>, <<Madhouse>>, Some(90))

\* another series, on a page past the second
MExtra(p) == Media(Some(10 + p), [NoTitle EXCEPT !.native = Some(Beck)], <<Action>>, <<>>, <<>>, None)

PageMedia(p) ==
    IF p = 1 THEN <<M1, MNoTitle>>
    ELSE IF p = 2 THEN <<M2, MHentai, MNoId>>
    ELSE <<MExtra(p)>>

\* AniList's data: n pages for 1940, one page for 1941, nothing for the other
\* years.  pageInfo.hasNextPage is true before the last page, and false or
\* missing on it.
Pages1940(n) ==
    [p \in 1..n |->
        [media |-> PageMedia(p),
         hasNextPage |-> IF p < n THEN Some(TRUE) ELSE IF n = 1 THEN None ELSE Some(FALSE)]]
Upstreams ==
    {[yr \in {1940, 1941} |->
         IF yr = 1940 THEN Pages1940(n)
         ELSE <<[media |-> <<M1Again, M2>>, hasNextPage |-> Some(FALSE)]>>] :
     n \in 0..MaxPages}

InitIngest ==
    /\ upstream \in Upstreams
    /\ anime = {}
    /\ run = 1 /\ y = FirstYear /\ page = 1 /\ count = 0 /\ wait_time = BaseWait
    /\ fetch_pc = "request"
    /\ event = Ev("call", 0)
    /\ retries = 0 /\ rl_run = 0
    /\ pages_done = <<>>
    /\ attempted = <<FirstYear>>
    /\ erred = FALSE
    /\ printed = None
    /\ snapshot = {}
    /\ export = MissingFile
    /\ cli_pc = "idle" /\ script_pc = "idle"
    /\ watched_ids = {} /\ console = 0 /\ call = NoCall /\ out = NoOut
    /\ script_watched = {} /\ script_out = <<>>

NextIngest == RequestFails \/ RateLimited \/ ApiError \/ NoData \/ PageOk \/ Return

SpecIngest == InitIngest /\ [][NextIngest]_vars

\* The same, when requests do not fail for ever: a request that can be
\* answered with its page eventually is, and fetch_year's return is taken.
SpecIngestFair == SpecIngest /\ WF_vars(PageOk) /\ WF_vars(Return)

\* Two runs of fetch_anilist.py, one after the other, in which AniList answers
\* every request with the page asked for.
NextTwice == PageOk \/ Return \/ Rerun

SpecTwice == InitIngest /\ [][NextTwice]_vars

-----------------------------------------------------------------------------
(* Properties.                                                             *)

Range(f) == {f[i] : i \in DOMAIN f}

\* text contains sub, character for character
Contains(text, sub) ==
    \E i \in 1..(Len(text) - Len(sub) + 1) : SubSeq(text, i, i + Len(sub) - 1) = sub

\* text contains sub, ASCII case ignored
ContainsCI(text, sub) == Contains(Lower(text), Lower(sub))

CliLoaded == cli_pc \in {"ready", "closed", "crashed"}
ScriptLoaded == script_pc \in {"loaded", "done"}

HasId(rec) == ~Missing(rec.series_animedb_id)
IdParses(rec) == HasId(rec) /\ int(Val(rec.series_animedb_id.text)).ok
IdOf(rec) == int(Val(rec.series_animedb_id.text)).val

\* my_status is "completed" in any case, or the code "2", as written
StatusIsCompleted(rec) ==
    /\ ~Missing(rec.my_status)
    /\ \/ Lower(Val(rec.my_status.text)) = completed
       \/ Val(rec.my_status.text) = <<"2">>

\* the same after surrounding whitespace is dropped
StrippedStatusIsCompleted(rec) ==
    /\ ~Missing(rec.my_status)
    /\ \/ Lower(Strip(Val(rec.my_status.text))) = completed
       \/ Strip(Val(rec.my_status.text)) = <<"2">>

\* C1 as claimed: once the CLI has loaded the export, a record's identifier
\* is in the watched set if and only if the record has an identifier and its
\* status is "completed" (any case) or "2".
C1_Original ==
    (CliLoaded /\ export.kind = "ok") =>
        \A rec \in Range(export.records) :
            (IdParses(rec) /\ IdOf(rec) \in watched_ids)
                <=> (HasId(rec) /\ StatusIsCompleted(rec))

\* C1 as amended: for a document all of whose identifier texts are integers,
\* the watched set (of the CLI and of the comparison script) is exactly the
\* set of integers named by some record that has an identifier and whose
\* status, surrounding whitespace dropped, is "completed" in any case or
\* "2"; records without an identifier element or text add nothing.
C1_Amended ==
    LET valid == export.kind = "ok" /\ \A rec \in Range(export.records) :
                                            HasId(rec) => IdParses(rec)
        expected == {IdOf(rec) : rec \in {r \in Range(export.records) :
                                            HasId(r) /\ StrippedStatusIsCompleted(r)}}
    IN valid => /\ CliLoaded => watched_ids = expected
                /\ ScriptLoaded => script_watched = expected

\* A completed record without identifier text beside a record counted for
\* its status code, loaded by the CLI.
C1_Witness ==
    /\ CliLoaded /\ export.kind = "ok" /\ Len(export.records) = 2
    /\ export.records[1] = Record(NoText, Elem(<<"C","o","m","p","l","e","t","e","d">>))
    /\ export.records[2] = Record(Elem(<<"0","2">>), Elem(<<" ","2">>))
    /\ watched_ids = {2}

LoadFails(file) ==
    file.kind # "ok" \/ \E rec \in Range(file.records) : HasId(rec) /\ ~IdParses(rec)

\* C9 as claimed: when loading the export fails, the failure is logged, the
\* watched set is empty and the program goes on, in the CLI and in the
\* comparison script.
C9_Claim ==
    LoadFails(export) =>
        /\ CliLoaded => (watched_ids = {} /\ console >= 1)
        /\ script_pc # "aborted"

PercentIs(percent, part, total) ==
    IF total = 0 THEN percent.num = 0
    ELSE percent.num * total = part * 100 * percent.den

\* C3: every entry get_year_progress reports, and every line compare_year
\* yields, has watched + remaining = total and percent = watched / total *
\* 100 (0 for an empty year); ten rows in 2020 with six watched print
\* 2020 | 6 | 10 | 60.0%.
C3_Progress ==
    /\ call.cmd = "progress" =>
         /\ \A i \in 1..Len(out.progress) :
              LET d == out.progress[i]
                  rows == {r \in anime : r.year = d.year}
              IN /\ d.total = Cardinality(rows)
                 /\ d.watched = Cardinality({r \in rows : r.mal_id \in watched_ids})
                 /\ d.watched + d.remaining = d.total
                 /\ PercentIs(d.percent, d.watched, d.total)
         /\ (anime = Catalog2020 /\ export = Export2020) =>
              out.lines = <<[year |-> 2020, watched |-> 6, total |-> 10, percent |-> 600]>>
    /\ script_pc = "done" =>
         \A i \in 1..Len(script_out) :
              LET d == script_out[i]
              IN /\ d.total = Cardinality({r \in anime : r.year = d.year})
                 /\ d.completed + Len(d.remaining) = d.total
                 /\ PercentIs(d.percent, d.completed, d.total)
    /\ PercentIs(compare_year(2020, watched_ids, <<>>).percent, 0, 0)

\* The progress command has printed the line of the example.
C3_Witness ==
    /\ call.cmd = "progress"
    /\ Cardinality(watched_ids) = 6
    /\ Len(out.lines) = 1
    /\ out.lines[1] = [year |-> 2020, watched |-> 6, total |-> 10, percent |-> 600]
    /\ out.progress[1].remaining = 4

SortKeys == {"most_popular", "least_popular", "most_episodes", "least_episodes",
             "longest", "shortest"}

\* The ORDER BY term a sort option stands for.
TermOf(key) ==
    CASE key = "most_popular" -> Term("favourites", TRUE)
      [] key = "least_popular" -> Term("favourites", FALSE)
      [] key = "most_episodes" -> Term("cant_episodes", TRUE)
      [] key = "least_episodes" -> Term("cant_episodes", FALSE)
      [] key = "longest" -> Term("(cant_episodes * duration_per_episode)", TRUE)
      [] key = "shortest" -> Term("(cant_episodes * duration_per_episode)", FALSE)

IsSort(item) == item.key \in SortKeys /\ Truthy(item)

\* The terms of the sort options among items, in the order of items.
TermsOf(items) ==
    LET sorts == SelectSeq(items, IsSort)
    IN [i \in 1..Len(sorts) |-> TermOf(sorts[i].key)]

Listing == call.cmd \in {"search_remaining", "year"}

\* C4 as claimed: a listing for which no sort key is requested (no filters
\* at all included) is ordered by rating descending.
C4_Claim ==
    (Listing /\ ~out.raised /\ TermsOf(call.filters.items) = <<>>) =>
        IsOrderedBy(out.rows, <<Term("rating", TRUE)>>)

\* C5 as claimed: the sort options are the ORDER BY terms in the order they
\* were supplied: the order of the mapping for search_remaining, the order
\* of the command line for the year command.
C5_Original ==
    /\ (call.cmd = "search_remaining" /\ TermsOf(call.filters.items) # <<>>) =>
          out.sql.order_by = TermsOf(call.filters.items)
    /\ (call.cmd = "year" /\ TermsOf(call.args) # <<>>) =>
          out.sql.order_by = TermsOf(call.args)

\* The position of a key in the year command's "if" chain.
ChainIndex(key) == CHOOSE i \in 1..Len(YearKeys) : YearKeys[i] = key

\* C5 as amended: the ORDER BY terms are the sort options in the order of
\* the filters mapping, and rows that are returned are ordered by them, ties
\* on one key broken by the next; the year command fills that mapping in the
\* fixed order most_popular, least_popular, most_episodes, least_episodes,
\* longest, shortest, whatever the order of the options on the command line.
C5_Amended ==
    /\ (Listing /\ TermsOf(call.filters.items) # <<>>) =>
          /\ out.sql.order_by = TermsOf(call.filters.items)
          /\ IsOrderedBy(out.rows, TermsOf(call.filters.items))
    /\ call.cmd = "year" =>
          /\ Range(call.filters.items) = {a \in Range(call.args) : Truthy(a)}
          /\ \A i, j \in 1..Len(call.filters.items) :
                i < j => ChainIndex(call.filters.items[i].key)
                            < ChainIndex(call.filters.items[j].key)

\* --longest typed before --most-popular: the listing is by favourites, ties
\* broken by total duration.
C5_Witness ==
    /\ call.cmd = "year" /\ ~out.raised
    /\ Len(call.args) = 2
    /\ call.args[1].key = "longest" /\ call.args[2].key = "most_popular"
    /\ out.sql.order_by = <<Term("favourites", TRUE),
                            Term("(cant_episodes * duration_per_episode)", TRUE)>>
    /\ Len(out.rows) = 3
    /\ out.rows[2].favourites = out.rows[3].favourites
    /\ Val(out.rows[2].cant_episodes) * Val(out.rows[2].duration_per_episode)
         > Val(out.rows[3].cant_episodes) * Val(out.rows[3].duration_per_episode)

\* A row passes a filter entry, as the entry reads.
Passes(row, item) ==
    CASE item.key = "genre" -> ContainsCI(row.genre, item.txt)
      [] item.key = "type" -> row.type = Some(item.txt)
      [] item.key = "duration_min" ->
            ~IsNone(row.duration_per_episode) /\ Val(row.duration_per_episode) >= item.num
      [] item.key = "duration_max" ->
            ~IsNone(row.duration_per_episode) /\ Val(row.duration_per_episode) <= item.num
      [] item.key = "rating_min" -> ~IsNone(row.rating) /\ Val(row.rating) >= item.num
      [] item.key = "demographic" -> row.demographic = Some(item.txt)
      [] item.key = "source" -> row.source = Some(item.txt)
      [] item.key = "studio" -> ContainsCI(row.studio, item.txt)
      [] OTHER -> TRUE

\* C6 as claimed: with any combination of the recognized filters the listing
\* succeeds and returns exactly the rows of the year that are not watched and
\* pass every filter supplied.
C6_Claim ==
    Listing =>
        /\ ~out.raised
        /\ Range(out.rows) =
              {r \in anime : /\ r.year = Val(call.year)
                             /\ r.mal_id \notin watched_ids
                             /\ \A it \in Range(call.filters.items) :
                                    Truthy(it) => Passes(r, it)}

HasWildcard(query) == \E i \in 1..Len(query) : query[i] \in {"%", "_"}

\* C7 as claimed, for a limit that is a count (not negative) and a year
\* filter that is a year (not 0): search returns only rows whose title
\* contains the substring and, with a year filter, whose year is that year,
\* ordered by rating descending, and never more rows than the limit.
C7_Original ==
    (call.cmd = "search" /\ call.limit >= 0 /\ call.year # Some(0)) =>
        /\ \A r \in Range(out.rows) :
              /\ Contains(r.title, call.query)
              /\ ~IsNone(call.year) => r.year = Val(call.year)
        /\ IsOrderedBy(out.rows, <<Term("rating", TRUE)>>)
        /\ Len(out.rows) <= call.limit

\* C7 as amended: search returns only rows whose title matches the
\* substring under SQL LIKE (contains it with ASCII case ignored; % and _ in
\* it are wildcards) and, with a year filter other than 0, whose year is that
\* year, ordered by rating descending (rows without rating last), and never
\* more rows than a limit that is not negative.
C7_Amended ==
    call.cmd = "search" =>
        /\ \A r \in Range(out.rows) :
              /\ r \in anime
              /\ Like(Wrap(call.query), r.title)
              /\ ~HasWildcard(call.query) => ContainsCI(r.title, call.query)
              /\ (~IsNone(call.year) /\ Val(call.year) # 0) => r.year = Val(call.year)
        /\ IsOrderedBy(out.rows, <<Term("rating", TRUE)>>)
        /\ call.limit >= 0 => Len(out.rows) <= call.limit

\* The example: "Naruto" with --year 2002 finds the 2002 row and not the
\* 2003 row of the same title; the limit cuts off nothing.
C7_Witness ==
    /\ call.cmd = "search" /\ call.query = Naruto /\ call.year = Some(2002)
    /\ call.limit = 1
    /\ R4 \in anime
    /\ out.rows = <<R1>>

\* C2 (as stated): when fetch_anilist.py has run a second time against the
\* same AniList data, the anime table is the one the first run left: the
\* second run added no row.
C2_Claim == (fetch_pc = "done" /\ run = 2) => anime = snapshot

Pow2(n) == 2 ^ n

\* C8: the rate-limit wait stays between 1 and 20 seconds; the k-th
\* rate-limit response in a row is slept min(2^(k-1), 20) seconds (1, 2, 4,
\* 8, 16, 20, 20) and leaves the wait at min(2^k, 20); after a response
\* without errors the wait is 1 again.
C8_Backoff ==
    fetch_pc # "idle" =>
        /\ wait_time >= BaseWait /\ wait_time <= MaxWait
        /\ wait_time = Min(Pow2(rl_run), MaxWait)
        /\ event.kind = "rate_limit" =>
               /\ rl_run >= 1
               /\ event.ms = 1000 * Min(Pow2(rl_run - 1), MaxWait)
        /\ event.kind \in {"page", "last_page", "no_data"} => wait_time = BaseWait

\* Seven rate-limit responses in a row, with a failed request among them: the
\* seventh was slept 20 seconds, as the sixth was.
C8_Witness ==
    /\ rl_run = 7
    /\ retries > rl_run
    /\ event = Ev("rate_limit", 20000)
    /\ wait_time = MaxWait

YearsUpTo(year) == [i \in 1..(year - FirstYear + 1) |-> FirstYear + i - 1]

\* the step in which fetch_year meets an API error that is not a rate limit
ErrorStep == fetch_pc = "request" /\ event'.kind = "error" /\ event' # event

\* C10: an API error other than a rate limit ends fetch_year for that year:
\* nothing is inserted from the response, the rows and the count saved so far
\* are kept, no further request is made for the year, and the driver calls
\* fetch_year for the next year; the years are attempted once each, in
\* ascending order, and the program ends after 2025.
C10_Claim ==
    /\ [](fetch_pc # "idle" =>
             /\ attempted = YearsUpTo(y)
             /\ y >= FirstYear /\ y < StopYear
             /\ fetch_pc = "done" => y = StopYear - 1)
    /\ [][ErrorStep =>
             /\ anime' = anime /\ count' = count /\ y' = y
             /\ fetch_pc' = "saved"]_vars
    /\ [][fetch_pc = "saved" =>
             /\ anime' = anime
             /\ \/ y' = y + 1 /\ fetch_pc' = "request" /\ page' = 1
                \/ y = StopYear - 1 /\ y' = y /\ fetch_pc' = "done"
             /\ printed' = Some([year |-> y, count |-> count])]_vars

\* 1940 was left on an API error met on its second page: the rows of the first
\* page are in the table and the driver has called fetch_year(1941).
C10_Witness ==
    /\ erred
    /\ y = FirstYear + 1
    /\ fetch_pc = "request"
    /\ event.kind = "call"
    /\ printed = Some([year |-> FirstYear, count |-> 2])
    /\ Len(PagesOf(FirstYear)) = 2
    /\ \E r \in anime : r.year = FirstYear

\* the step in which a request of fetch_year raises
ExceptionStep == fetch_pc = "request" /\ event'.kind = "exception"

OneTo(n) == [i \in 1..n |-> i]

\* C11: when a request raises, fetch_year sleeps 5 seconds and is back at the
\* same request: page, count, wait_time and the table are unchanged.  The
\* retry has no limit: while fetch_year is at a request, the request may fail
\* once more.  The retries neither skip nor repeat a page: the pages processed
\* are 1 .. page - 1, each once.  When requests do not fail for ever, the
\* program runs to its end.
C11_Claim ==
    /\ [][ExceptionStep =>
             /\ event' = Ev("exception", RetrySleepMs)
             /\ fetch_pc' = "request"
             /\ UNCHANGED <<anime, y, page, count, wait_time, pages_done>>]_vars
    /\ [](fetch_pc = "request" => ENABLED RequestFails)
    /\ [](fetch_pc = "request" =>
             /\ pages_done = OneTo(page - 1)
             /\ retries <= MaxRetries)
    /\ <>(fetch_pc = "done")

\* The request for the second page of 1940 has failed MaxRetries times in a
\* row, with no rate limit among the failures; the first page is processed and
\* its two records counted.
C11_Witness ==
    /\ fetch_pc = "request"
    /\ y = FirstYear /\ page = 2
    /\ event = Ev("exception", RetrySleepMs)
    /\ retries = MaxRetries /\ rl_run = 0
    /\ pages_done = <<1>> /\ count = 2

\* the step in which fetch_year processes the media of a page
ProcessStep == fetch_pc = "request" /\ pages_done' # pages_done /\ y' = y

HasNext(year, p) == PageData(year, p).hasNextPage = Some(TRUE)

\* C12: within one call of fetch_year the pages processed are 1, 2, ..., k in
\* that order, each once.  A page is processed by inserting its media.  page
\* grows only by one, in the step that processed a page reporting
\* hasNextPage true, followed by the 0.25 second sleep.  The step that
\* processes a page reporting hasNextPage false or nothing inserts its media
\* too and leaves the loop; once the loop is left no page is processed and no
\* request made until the next year's call.
C12_Claim ==
    /\ [](fetch_pc \in {"request", "saved"} =>
             /\ pages_done = OneTo(Len(pages_done))
             /\ fetch_pc = "request" => page = Len(pages_done) + 1
             /\ fetch_pc = "saved" => page \in {Len(pages_done), Len(pages_done) + 1})
    /\ [][ProcessStep =>
             /\ pages_done' = Append(pages_done, page)
             /\ anime' = MediaLoop(PageData(y, page).media, anime, count, y).table
             /\ count' = MediaLoop(PageData(y, page).media, anime, count, y).count
             /\ IF HasNext(y, page)
                THEN page' = page + 1 /\ fetch_pc' = "request"
                     /\ event' = Ev("page", PageSleepMs)
                ELSE page' = page /\ fetch_pc' = "saved"]_vars
    /\ [][(y' = y /\ page' # page) => (ProcessStep /\ HasNext(y, page))]_vars
    /\ [][fetch_pc = "saved" =>
             /\ anime' = anime
             /\ (y' = y => (fetch_pc' = "done" /\ UNCHANGED <<page, pages_done, count>>))]_vars

\* Both pages of 1940 are processed, the second reporting no further page: its
\* record without identifier is in the table and fetch_year has left the loop
\* with four records counted.
C12_Witness ==
    /\ y = FirstYear
    /\ fetch_pc = "saved"
    /\ event.kind = "last_page"
    /\ Len(PagesOf(FirstYear)) = 2
    /\ pages_done = <<1, 2>> /\ page = 2
    /\ count = 4
    /\ \E r \in anime : r.mal_id = 3 /\ r.title = Beck

=============================================================================
